---- MODULE Spec2Model ----
(***************************************************************************)
(* HttpDate (src/header/shared/httpdate.rs): a wrapper around time::Tm     *)
(* with parsing from the three HTTP date forms, formatting to IMF-fixdate  *)
(* and conversions from and to std::time::SystemTime.                      *)
(*                                                                         *)
(* Strings are TLA+ strings; a character is a string of length one.        *)
(* The operations of the `time` 0.1 crate and of std::time that the file   *)
(* calls are modelled by what they compute (strptime's directive           *)
(* interpreter, timegm, gmtime, the strftime directives of rfc822,         *)
(* Timespec::new's assertion, Duration and SystemTime arithmetic).         *)
(***************************************************************************)
EXTENDS Integers, Sequences, FiniteSets, TLC

VARIABLES input, date, tried, text, again, systime, cmp

vars == <<input, date, tried, text, again, systime, cmp>>

(***************************************************************************)
(* Bounds of the model.                                                    *)
(***************************************************************************)
\* calendar years for which seconds since the epoch are computed (the
\* model's integers are 32 bits wide; time_t is 64 bits wide)
MinYear == 1902
MaxYear == 2037
\* SystemTime inputs lie within MaxDays whole days of the epoch (plus the
\* instant of the test date)
MaxDays == 1

NSEC_PER_SEC == 1000000000

(***************************************************************************)
(* time::Tm                                                                *)
(***************************************************************************)
Tm(sec, min, hour, mday, mon, year, wday, yday, nsec) ==
    [tm_sec |-> sec, tm_min |-> min, tm_hour |-> hour, tm_mday |-> mday,
     tm_mon |-> mon, tm_year |-> year, tm_wday |-> wday, tm_yday |-> yday,
     tm_isdst |-> 0, tm_utcoff |-> 0, tm_nsec |-> nsec]

\* strptime's initial value: every field zero
EmptyTm == Tm(0, 0, 0, 0, 0, 0, 0, 0, 0)

\* the constant of the tests
NOV_07 == Tm(37, 48, 8, 7, 10, 94, 0, 0, 0)

(***************************************************************************)
(* time::strptime: the string helpers                                      *)
(***************************************************************************)
CharAt(s, i) == SubSeq(s, i, i)

Drop(s, n) == SubSeq(s, n + 1, Len(s))

Digits == "0123456789"

IsDigit(c) == \E i \in 1..10 : CharAt(Digits, i) = c

DigitVal(c) == (CHOOSE i \in 1..10 : CharAt(Digits, i) = c) - 1

\* match_str: the needle is a prefix of s
match_str(s, needle) ==
    Len(s) >= Len(needle) /\ SubSeq(s, 1, Len(needle)) = needle

\* match_strs: the index (from 0) of the first needle that is a prefix of
\* s, -1 for None
match_strs(s, strs) ==
    LET hits == {i \in 1..Len(strs) : match_str(s, strs[i])}
    IN  IF hits = {} THEN -1
        ELSE (CHOOSE i \in hits : \A j \in hits : i <= j) - 1

\* trim_left_matches(" "): the number of leading spaces
RECURSIVE LeadingSpaces(_)
LeadingSpaces(s) ==
    IF Len(s) > 0 /\ CharAt(s, 1) = " " THEN 1 + LeadingSpaces(Drop(s, 1))
    ELSE 0

\* the loop of match_digits_i64: at most `left` digits, n characters taken
\* so far
RECURSIVE DigitLoop(_, _, _, _)
DigitLoop(s, left, n, value) ==
    IF left > 0 /\ Len(s) > 0 /\ IsDigit(CharAt(s, 1))
    THEN DigitLoop(Drop(s, 1), left - 1, n + 1, value * 10 + DigitVal(CharAt(s, 1)))
    ELSE [n |-> n, value |-> value]

\* match_digits with the leading spaces of %e not skipped
match_digits_no_ws(s, min_digits, max_digits, ws) ==
    LET Counted(r) ==
            IF r.n >= min_digits /\ r.n <= max_digits
            THEN [some |-> TRUE, value |-> r.value, n |-> r.n]
            ELSE [some |-> FALSE, value |-> 0, n |-> 0]
    IN  Counted(DigitLoop(s, max_digits, 0, 0))

\* match_digits_i64 / match_digits: [some, value, n]; n characters consumed
match_digits(s, min_digits, max_digits, ws) ==
    LET Counted(r) ==
            IF r.n >= min_digits /\ r.n <= max_digits
            THEN [some |-> TRUE, value |-> r.value, n |-> r.n]
            ELSE [some |-> FALSE, value |-> 0, n |-> 0]
        After(n0) ==
            IF n0 > max_digits THEN [some |-> FALSE, value |-> 0, n |-> 0]
            ELSE Counted(DigitLoop(Drop(s, n0), max_digits - n0, n0, 0))
    IN  After(IF ws THEN LeadingSpaces(s) ELSE 0)

\* match_digits_in_range: None as well when the value is out of [min, max];
\* `range` records that digits were read and the value was out of range
match_digits_in_range(s, min_digits, max_digits, ws, min, max) ==
    LET InRange(r) ==
            IF r.some /\ r.value >= min /\ r.value <= max
            THEN [some |-> TRUE, value |-> r.value, n |-> r.n, range |-> FALSE]
            ELSE [some |-> FALSE, value |-> 0, n |-> 0, range |-> r.some]
    IN  InRange(match_digits(s, min_digits, max_digits, ws))

WeekdaysLong ==
    <<"Sunday", "Monday", "Tuesday", "Wednesday", "Thursday", "Friday", "Saturday">>

WeekdaysShort == <<"Sun", "Mon", "Tue", "Wed", "Thu", "Fri", "Sat">>

MonthsShort ==
    <<"Jan", "Feb", "Mar", "Apr", "May", "Jun", "Jul", "Aug", "Sep", "Oct", "Nov", "Dec">>

(***************************************************************************)
(* time::strptime: a parse state is [ok, s, tm, range]: s the rest of the  *)
(* input, tm the fields set so far; on failure ok is FALSE and range tells *)
(* whether a numeric field was read and found out of its range.            *)
(***************************************************************************)
POk(s, tm) == [ok |-> TRUE, s |-> s, tm |-> tm, range |-> FALSE]

PErr(st, range) == [ok |-> FALSE, s |-> st.s, tm |-> st.tm, range |-> range]

\* parse_char
parse_char(st, c) ==
    IF Len(st.s) > 0 /\ CharAt(st.s, 1) = c THEN POk(Drop(st.s, 1), st.tm)
    ELSE PErr(st, FALSE)

\* a directive that matches one of a list of names into a field
ParseName(st, strs, field) ==
    LET Named(v) ==
            IF v >= 0
            THEN POk(Drop(st.s, Len(strs[v + 1])), [st.tm EXCEPT ![field] = v])
            ELSE PErr(st, FALSE)
    IN  Named(match_strs(st.s, strs))

\* a directive that matches digits in a range into a field
ParseNum(st, max_digits, ws, min, max, field) ==
    LET Numbered(r) ==
            IF r.some THEN POk(Drop(st.s, r.n), [st.tm EXCEPT ![field] = r.value])
            ELSE PErr(st, r.range)
    IN  Numbered(match_digits_in_range(st.s, 1, max_digits, ws, min, max))

\* %Z: "UTC" or "GMT", otherwise the zone is skipped up to the next space
\* (or the end of the input); the offset stays 0 either way
RECURSIVE SkipToSpace(_)
SkipToSpace(s) ==
    IF Len(s) = 0 \/ CharAt(s, 1) = " " THEN s ELSE SkipToSpace(Drop(s, 1))

ParseZone(st) ==
    IF match_str(st.s, "UTC") \/ match_str(st.s, "GMT")
    THEN POk(Drop(st.s, 3), [st.tm EXCEPT !.tm_utcoff = 0])
    ELSE POk(SkipToSpace(st.s), st.tm)

\* Result::and_then: the next step runs only on Ok
and_then_char(r, c) == IF r.ok THEN parse_char(r, c) ELSE r

and_then_name(r, strs, field) == IF r.ok THEN ParseName(r, strs, field) ELSE r

and_then_num(r, max_digits, ws, min, max, field) ==
    IF r.ok THEN ParseNum(r, max_digits, ws, min, max, field) ELSE r

\* %T: %H, ':', %M, ':', %S
ParseTime(st) ==
    and_then_num(
        and_then_char(
            and_then_num(
                and_then_char(ParseNum(st, 2, FALSE, 0, 23, "tm_hour"), ":"),
                2, FALSE, 0, 59, "tm_min"),
            ":"),
        2, FALSE, 0, 60, "tm_sec")

\* %Y: one to four digits, no range
ParseYear(st) ==
    LET Year(r) ==
            IF r.some
            THEN POk(Drop(st.s, r.n), [st.tm EXCEPT !.tm_year = r.value - 1900])
            ELSE PErr(st, FALSE)
    IN  Year(match_digits(st.s, 1, 4, FALSE))

and_then_time(r) == IF r.ok THEN ParseTime(r) ELSE r

and_then_year(r) == IF r.ok THEN ParseYear(r) ELSE r

\* %c: %a, ' ', %b, ' ', %e, ' ', %T, ' ', %Y
ParseCtime(st) ==
    and_then_year(
        and_then_char(
            and_then_time(
                and_then_char(
                    and_then_num(
                        and_then_char(
                            and_then_name(
                                and_then_char(
                                    ParseName(st, WeekdaysShort, "tm_wday"), " "),
                                MonthsShort, "tm_mon"),
                            " "),
                        2, TRUE, 1, 31, "tm_mday"),
                    " ")),
            " "))

\* parse_type: one directive
parse_type(st, ch) ==
    CASE ch = "A" -> ParseName(st, WeekdaysLong, "tm_wday")
      [] ch = "a" -> ParseName(st, WeekdaysShort, "tm_wday")
      [] ch = "b" -> ParseName(st, MonthsShort, "tm_mon")
      [] ch = "c" -> ParseCtime(st)
      [] ch = "d" -> ParseNum(st, 2, FALSE, 1, 31, "tm_mday")
      [] ch = "e" -> ParseNum(st, 2, TRUE, 1, 31, "tm_mday")
      [] ch = "H" -> ParseNum(st, 2, FALSE, 0, 23, "tm_hour")
      [] ch = "M" -> ParseNum(st, 2, FALSE, 0, 59, "tm_min")
      [] ch = "S" -> ParseNum(st, 2, FALSE, 0, 60, "tm_sec")
      [] ch = "T" -> ParseTime(st)
      [] ch = "Y" -> ParseYear(st)
      [] ch = "y" -> ParseNum(st, 2, FALSE, 0, 99, "tm_year")
      [] ch = "Z" -> ParseZone(st)
      [] OTHER -> PErr(st, FALSE)

\* the loop of strptime over the characters of the format; the input need
\* not be consumed to its end
RECURSIVE strptime_loop(_, _)
strptime_loop(st, format) ==
    LET Go(r, rest) == IF r.ok THEN strptime_loop(r, rest) ELSE r
    IN  IF Len(format) = 0 THEN st
        ELSE IF CharAt(format, 1) = "%"
             THEN IF Len(format) >= 2
                  THEN Go(parse_type(st, CharAt(format, 2)), Drop(format, 2))
                  ELSE st
             ELSE Go(parse_char(st, CharAt(format, 1)), Drop(format, 1))

strptime(s, format) == strptime_loop(POk(s, EmptyTm), format)

(***************************************************************************)
(* The calendar arithmetic of timegm and gmtime (proleptic Gregorian).     *)
(***************************************************************************)
IsLeap(y) == (y % 4 = 0 /\ y % 100 # 0) \/ y % 400 = 0

\* the number of leap years in 1..(y - 1)
LeapsBefore(y) == ((y - 1) \div 4) - ((y - 1) \div 100) + ((y - 1) \div 400)

\* days from 1970-01-01 to the first day of year y
DaysBeforeYear(y) == 365 * (y - 1970) + LeapsBefore(y) - LeapsBefore(1970)

CumDays == <<0, 31, 59, 90, 120, 151, 181, 212, 243, 273, 304, 334>>

\* days from the first day of year y to the first day of month m (0..11)
DaysBeforeMonth(y, m) == CumDays[m + 1] + (IF m >= 2 /\ IsLeap(y) THEN 1 ELSE 0)

\* timegm: seconds since the epoch of the broken-down UTC time; tm_wday
\* and tm_yday are not read, a day of the month past the month's end
\* carries into the next month
timegm(tm) ==
    LET Days(y) == DaysBeforeYear(y) + DaysBeforeMonth(y, tm.tm_mon) + tm.tm_mday - 1
    IN  Days(tm.tm_year + 1900) * 86400 + tm.tm_hour * 3600 + tm.tm_min * 60
            + tm.tm_sec

\* gmtime: the broken-down UTC time of sec seconds since the epoch, with
\* the day of the week and the day of the year computed
gmtime(sec, nsec) ==
    LET Fields(days, rem, y, yday, m) ==
            Tm(rem % 60, (rem \div 60) % 60, rem \div 3600,
               yday - DaysBeforeMonth(y, m) + 1, m, y - 1900,
               (days + 4) % 7, yday, nsec)
        InYear(days, rem, y, yday) ==
            Fields(days, rem, y, yday,
                   CHOOSE mm \in 0..11 :
                       /\ DaysBeforeMonth(y, mm) <= yday
                       /\ (mm = 11 \/ yday < DaysBeforeMonth(y, mm + 1)))
        OfYear(days, rem, y) == InYear(days, rem, y, days - DaysBeforeYear(y))
        OfDays(days, rem) ==
            OfYear(days, rem,
                   CHOOSE yy \in MinYear..MaxYear :
                       DaysBeforeYear(yy) <= days /\ days < DaysBeforeYear(yy + 1))
    IN  OfDays(sec \div 86400, sec % 86400)

\* the years whose seconds since the epoch the model computes
InWindow(tm) == tm.tm_year + 1900 >= MinYear /\ tm.tm_year + 1900 <= MaxYear

(***************************************************************************)
(* time::Timespec, time::at_utc, Tm::to_timespec, Tm::to_utc               *)
(***************************************************************************)
\* Timespec::new asserts 0 <= nsec < NSEC_PER_SEC; a failed assertion is
\* a panic
Timespec_new(sec, nsec) ==
    IF nsec >= 0 /\ nsec < NSEC_PER_SEC
    THEN [kind |-> "ok", sec |-> sec, nsec |-> nsec]
    ELSE [kind |-> "panic", sec |-> 0, nsec |-> 0]

at_utc(tmspec) == gmtime(tmspec.sec, tmspec.nsec)

\* to_timespec: tm_utcoff is 0 in every value built here, so timegm
to_timespec(tm) == Timespec_new(timegm(tm), tm.tm_nsec)

\* to_utc: a value whose offset is 0 is returned as it is
to_utc(tm) == IF tm.tm_utcoff = 0 THEN tm ELSE at_utc(to_timespec(tm))

(***************************************************************************)
(* Tm::rfc822 and its Display: "%a, %d %b %Y %T GMT" for offset 0          *)
(***************************************************************************)
\* {} where the code has {:02}
Pad2_none(n) == ToString(n)

\* {:02}
Pad2(n) == IF n >= 0 /\ n < 10 THEN "0" \o ToString(n) ELSE ToString(n)

rfc822(tm) ==
    WeekdaysShort[tm.tm_wday + 1] \o ", " \o Pad2(tm.tm_mday) \o " "
        \o MonthsShort[tm.tm_mon + 1] \o " " \o ToString(tm.tm_year + 1900) \o " "
        \o Pad2(tm.tm_hour) \o ":" \o Pad2(tm.tm_min) \o ":" \o Pad2(tm.tm_sec)
        \o " GMT"

(***************************************************************************)
(* impl FromStr for HttpDate                                               *)
(***************************************************************************)
Patterns == <<"%a, %d %b %Y %T %Z", "%A, %d-%b-%y %T %Z", "%c">>

\* or_else running its closure on Ok as well: a later pattern overrides
or_else_always(attempts, s, format) == Append(attempts, strptime(s, format))

\* or_else running its closure only when the failure was not a field out
\* of its range
or_else_syntactic(attempts, s, format) ==
    IF attempts[Len(attempts)].ok \/ attempts[Len(attempts)].range THEN attempts
    ELSE Append(attempts, strptime(s, format))

\* Result::or_else: the closure runs only on Err, whatever the error;
\* `attempts` lists the results of the strptime calls made so far
or_else(attempts, s, format) ==
    IF attempts[Len(attempts)].ok THEN attempts
    ELSE Append(attempts, strptime(s, format))

\* from_str: [kind, tm, tried]; kind "err" is Err(Error::Header); tried
\* records each attempt made, in order
from_str(s) ==
    LET Made(attempts) ==
            [i \in 1..Len(attempts) |->
                [ok |-> attempts[i].ok, range |-> attempts[i].range]]
        Match(attempts, last) ==
            IF last.ok THEN [kind |-> "ok", tm |-> last.tm, tried |-> Made(attempts)]
            ELSE [kind |-> "err", tm |-> EmptyTm, tried |-> Made(attempts)]
        Last(attempts) == Match(attempts, attempts[Len(attempts)])
    IN  Last(or_else(or_else(<<strptime(s, Patterns[1])>>, s, Patterns[2]),
                     s, Patterns[3]))

(***************************************************************************)
(* impl Display for HttpDate                                               *)
(***************************************************************************)
fmt(tm) == rfc822(to_utc(tm))

(***************************************************************************)
(* std::time: a SystemTime is [sec, nsec], sec signed seconds from         *)
(* UNIX_EPOCH and 0 <= nsec < NSEC_PER_SEC; a Duration is [secs, nanos],   *)
(* secs a u64.  A u64 is [wrap, low] and stands for wrap * 2^64 + low      *)
(* (wrap is 1 for the cast of a negative i64).                             *)
(***************************************************************************)
UNIX_EPOCH == [sec |-> 0, nsec |-> 0]

\* sys.duration_since(UNIX_EPOCH): Ok(the time elapsed) at or after the
\* epoch, Err(the distance to the epoch) before it
duration_since_epoch(sys) ==
    IF sys.sec >= 0 THEN [ok |-> TRUE, secs |-> sys.sec, nanos |-> sys.nsec]
    ELSE IF sys.nsec = 0 THEN [ok |-> FALSE, secs |-> -sys.sec, nanos |-> 0]
    ELSE [ok |-> FALSE, secs |-> -sys.sec - 1, nanos |-> NSEC_PER_SEC - sys.nsec]

\* `as u64` of an i64
AsU64(x) == IF x >= 0 THEN [wrap |-> 0, low |-> x] ELSE [wrap |-> 1, low |-> x]

\* Duration::new(secs, nanos) with nanos < NSEC_PER_SEC: no carry
Duration_new(secs, nanos) == [secs |-> secs, nanos |-> nanos]

\* UNIX_EPOCH + dur: the outcomes
EpochAdd(dur) ==
    IF dur.secs.wrap = 0
    THEN {[kind |-> "ok", sec |-> dur.secs.low, nsec |-> dur.nanos]}
    ELSE {[kind |-> "panic", sec |-> 0, nsec |-> 0]}

\* UNIX_EPOCH - dur: the outcomes.  Seconds beyond i64::MAX either fail the
\* checked conversion (a panic: "overflow when subtracting duration") or,
\* in a standard library that casts with `as i64`, wrap to the negative
\* low part, which is then subtracted
EpochSubSecs(secs, nanos) ==
    IF nanos = 0 THEN [kind |-> "ok", sec |-> -secs, nsec |-> 0]
    ELSE [kind |-> "ok", sec |-> -secs - 1, nsec |-> NSEC_PER_SEC - nanos]

EpochSub(dur) ==
    IF dur.secs.wrap = 0 THEN {EpochSubSecs(dur.secs.low, dur.nanos)}
    ELSE {[kind |-> "panic", sec |-> 0, nsec |-> 0],
          EpochSubSecs(dur.secs.low, dur.nanos)}

(***************************************************************************)
(* impl From<SystemTime> for HttpDate: [kind, tm]                          *)
(***************************************************************************)
HttpDate_from(sys) ==
    LET At(tmspec) ==
            IF tmspec.kind = "ok" THEN [kind |-> "ok", tm |-> at_utc(tmspec)]
            ELSE [kind |-> "panic", tm |-> EmptyTm]
        Match(d) ==
            At(IF d.ok THEN Timespec_new(d.secs, d.nanos)
               ELSE Timespec_new(-(d.secs), -(d.nanos)))
    IN  Match(duration_since_epoch(sys))

(***************************************************************************)
(* impl From<HttpDate> for SystemTime: the set of outcomes [kind, sec,     *)
(* nsec]                                                                   *)
(***************************************************************************)
SystemTime_from(tm) ==
    LET Of(spec) ==
            IF spec.kind # "ok" THEN {[kind |-> "panic", sec |-> 0, nsec |-> 0]}
            ELSE IF spec.sec >= 0
                 THEN EpochAdd(Duration_new(AsU64(spec.sec), spec.nsec))
                 ELSE EpochSub(Duration_new(AsU64(spec.sec), spec.nsec))
    IN  Of(to_timespec(tm))

(***************************************************************************)
(* derive(PartialEq, Eq, PartialOrd, Ord) on HttpDate(time::Tm): equality  *)
(* is Tm's derived, field by field; the order is Tm's, which compares      *)
(* to_timespec() as (sec, nsec)                                            *)
(***************************************************************************)
HttpDate_eq(x, y) == \A f \in DOMAIN x : x[f] = y[f]

TimespecLt(p, q) == p.sec < q.sec \/ (p.sec = q.sec /\ p.nsec < q.nsec)

\* the order a derive on Tm's fields would give: the fields in the order of
\* their declaration, tm_sec first
FieldOrder ==
    <<"tm_sec", "tm_min", "tm_hour", "tm_mday", "tm_mon", "tm_year", "tm_wday",
      "tm_yday", "tm_isdst", "tm_utcoff", "tm_nsec">>

HttpDate_lt_fields(x, y) ==
    \E i \in 1..Len(FieldOrder) :
        /\ x[FieldOrder[i]] < y[FieldOrder[i]]
        /\ \A j \in 1..(i - 1) : x[FieldOrder[j]] = y[FieldOrder[j]]

HttpDate_lt(x, y) == TimespecLt(to_timespec(x), to_timespec(y))

(***************************************************************************)
(* The inputs: texts given to from_str and instants given to               *)
(* HttpDate::from.                                                         *)
(***************************************************************************)
ImfText == "Sun, 07 Nov 1994 08:48:37 GMT"

Rfc850Text == "Sunday, 07-Nov-94 08:48:37 GMT"

AsctimeText == "Sun Nov  7 08:48:37 1994"

ExampleTexts == {ImfText, Rfc850Text, AsctimeText}

DayRangeText == "Sun, 32 Nov 1994 08:48:37 GMT"

Texts ==
    ExampleTexts \cup
    {"this-is-no-date", "", "Sun, 07 Nov 1994",
     "Mon, 07 Nov 1994 08:48:37 GMT", "Monday, 07-Nov-94 08:48:37 GMT",
     "Sun, 06 Nov 1994 08:49:37 GMT", "Sunday, 06-Nov-94 08:49:37 GMT",
     "Sun Nov  6 08:49:37 1994", "Sun Nov 7 08:48:37 1994",
     DayRangeText, "Sunday, 07-Nov-94 25:48:37 GMT", "Sun Nov 77 08:48:37 1994",
     "Sun, 07 Nov 0994 08:48:37 GMT", "Sun, 7 Nov 1994 08:48:37 PST",
     "Thu, 01 Jan 1970 00:00:00 GMT", "Wed, 31 Dec 1969 00:00:00 GMT",
     "Fri, 02 Jan 1970 00:00:00 GMT", "Tue, 29 Feb 2000 23:59:60 GMT"}

\* the instant of the example texts: 1994-11-07 08:48:37 UTC
Nov07Instant == [sec |-> 784198117, nsec |-> 0]

Instants ==
    {[sec |-> d * 86400, nsec |-> n] : d \in (-MaxDays)..MaxDays, n \in {0, 500000000}}
        \cup {Nov07Instant, [sec |-> -1, nsec |-> 0]}

Slots == {"a", "b"}

NoInput == [kind |-> "none", s |-> "", t |-> UNIX_EPOCH]

NoDate == [kind |-> "none", tm |-> EmptyTm]

NoText == [done |-> FALSE, s |-> ""]

NoAgain == [kind |-> "none", s |-> ""]

NoSystime == [kind |-> "none", sec |-> 0, nsec |-> 0]

NoCmp == [done |-> FALSE, eq |-> FALSE, lt |-> FALSE, gt |-> FALSE]

(***************************************************************************)
(* The state: two HttpDate values a and b, each with the input it was      *)
(* made from, the attempts its parse made, its Display text, the Display   *)
(* text of that text parsed again, and its SystemTime; and the result of   *)
(* comparing a with b.                                                     *)
(***************************************************************************)
Init ==
    /\ input = [x \in Slots |-> NoInput]
    /\ date = [x \in Slots |-> NoDate]
    /\ tried = [x \in Slots |-> <<>>]
    /\ text = [x \in Slots |-> NoText]
    /\ again = [x \in Slots |-> NoAgain]
    /\ systime = [x \in Slots |-> NoSystime]
    /\ cmp = NoCmp

\* s.parse::<HttpDate>()
Parse(x, s) ==
    /\ input[x].kind = "none"
    /\ \E r \in {from_str(s)} :
           /\ input' = [input EXCEPT ![x] = [kind |-> "str", s |-> s, t |-> UNIX_EPOCH]]
           /\ date' = [date EXCEPT ![x] = [kind |-> r.kind, tm |-> r.tm]]
           /\ tried' = [tried EXCEPT ![x] = r.tried]
    /\ UNCHANGED <<text, again, systime, cmp>>

\* HttpDate::from(t)
FromSystemTime(x, t) ==
    /\ input[x].kind = "none"
    /\ input' = [input EXCEPT ![x] = [kind |-> "sys", s |-> "", t |-> t]]
    /\ date' = [date EXCEPT ![x] = HttpDate_from(t)]
    /\ UNCHANGED <<tried, text, again, systime, cmp>>

\* date.to_string()
Format(x) ==
    /\ date[x].kind = "ok"
    /\ ~text[x].done
    /\ text' = [text EXCEPT ![x] = [done |-> TRUE, s |-> fmt(date[x].tm)]]
    /\ UNCHANGED <<input, date, tried, again, systime, cmp>>

\* text.parse::<HttpDate>() and to_string() of the result
Reformat(x) ==
    /\ text[x].done
    /\ again[x].kind = "none"
    /\ \E r \in {from_str(text[x].s)} :
           again' = [again EXCEPT ![x] =
                        IF r.kind = "ok" THEN [kind |-> "ok", s |-> fmt(r.tm)]
                        ELSE [kind |-> "err", s |-> ""]]
    /\ UNCHANGED <<input, date, tried, text, systime, cmp>>

\* SystemTime::from(date)
ToSystemTime(x) ==
    /\ date[x].kind = "ok"
    /\ InWindow(date[x].tm)
    /\ systime[x].kind = "none"
    /\ \E r \in SystemTime_from(date[x].tm) : systime' = [systime EXCEPT ![x] = r]
    /\ UNCHANGED <<input, date, tried, text, again, cmp>>

\* a == b, a < b, b < a
Compare ==
    /\ date["a"].kind = "ok" /\ date["b"].kind = "ok"
    /\ InWindow(date["a"].tm) /\ InWindow(date["b"].tm)
    /\ ~cmp.done
    /\ cmp' = [done |-> TRUE,
               eq |-> HttpDate_eq(date["a"].tm, date["b"].tm),
               lt |-> HttpDate_lt(date["a"].tm, date["b"].tm),
               gt |-> HttpDate_lt(date["b"].tm, date["a"].tm)]
    /\ UNCHANGED <<input, date, tried, text, again, systime>>

Next ==
    \/ \E x \in Slots, s \in Texts : Parse(x, s)
    \/ \E x \in Slots, t \in Instants : FromSystemTime(x, t)
    \/ \E x \in Slots : Format(x)
    \/ \E x \in Slots : Reformat(x)
    \/ \E x \in Slots : ToSystemTime(x)
    \/ Compare

Spec == Init /\ [][Next]_vars

(***************************************************************************)
(* Helpers of the properties.                                              *)
(***************************************************************************)
Parsed(x) == input[x].kind = "str" /\ date[x].kind = "ok"

\* the patterns that parse s, each tried on its own
Matching(s) == {i \in 1..3 : strptime(s, Patterns[i]).ok}

AllDigits(s) == \A i \in 1..Len(s) : IsDigit(CharAt(s, i))

Names(strs) == {strs[i] : i \in 1..Len(strs)}

\* "Ddd, DD Mon Y..Y HH:MM:SS GMT" with a year of yl digits
ImfShape(s, yl) ==
    /\ Len(s) = 25 + yl
    /\ SubSeq(s, 1, 3) \in Names(WeekdaysShort)
    /\ SubSeq(s, 4, 5) = ", "
    /\ AllDigits(SubSeq(s, 6, 7))
    /\ CharAt(s, 8) = " "
    /\ SubSeq(s, 9, 11) \in Names(MonthsShort)
    /\ CharAt(s, 12) = " "
    /\ AllDigits(SubSeq(s, 13, 12 + yl))
    /\ CharAt(s, 13 + yl) = " "
    /\ AllDigits(SubSeq(s, 14 + yl, 15 + yl))
    /\ CharAt(s, 16 + yl) = ":"
    /\ AllDigits(SubSeq(s, 17 + yl, 18 + yl))
    /\ CharAt(s, 19 + yl) = ":"
    /\ AllDigits(SubSeq(s, 20 + yl, 21 + yl))
    /\ SubSeq(s, 22 + yl, 25 + yl) = " GMT"

\* the number of decimal digits of a year in 0..9999
YearDigits(y) == IF y < 10 THEN 1 ELSE IF y < 100 THEN 2 ELSE IF y < 1000 THEN 3 ELSE 4

DaysInMonth(y, m) ==
    IF m = 11 THEN 31 ELSE DaysBeforeMonth(y, m + 1) - DaysBeforeMonth(y, m)

\* the fields name a day of the calendar and a second of the day
ValidDate(tm) ==
    /\ tm.tm_mday >= 1 /\ tm.tm_mday <= DaysInMonth(tm.tm_year + 1900, tm.tm_mon)
    /\ tm.tm_sec <= 59

CalendarKey(tm) ==
    <<tm.tm_year, tm.tm_mon, tm.tm_mday, tm.tm_hour, tm.tm_min, tm.tm_sec>>

\* the date and time of p is earlier than that of q, read as a calendar
CalendarBefore(p, q) ==
    \E i \in 1..6 :
        /\ CalendarKey(p)[i] < CalendarKey(q)[i]
        /\ \A j \in 1..(i - 1) : CalendarKey(p)[j] = CalendarKey(q)[j]

SameInstant(x, y) ==
    /\ InWindow(date[x].tm) /\ InWindow(date[y].tm)
    /\ timegm(date[x].tm) = timegm(date[y].tm)

(***************************************************************************)
(* C1: from_str tries the three patterns in their order: the result is Ok  *)
(* of the value of the first pattern that parses the input, no later       *)
(* pattern is tried after a success, and it is Err(Error::Header) exactly  *)
(* when all three patterns fail.                                           *)
(***************************************************************************)
C1_FirstMatchWins ==
    \A x \in Slots :
        input[x].kind = "str" =>
            IF Matching(input[x].s) = {}
            THEN /\ date[x].kind = "err"
                 /\ Len(tried[x]) = 3
                 /\ \A i \in 1..3 : ~tried[x][i].ok
            ELSE \E k \in Matching(input[x].s) :
                    /\ \A j \in Matching(input[x].s) : k <= j
                    /\ date[x].kind = "ok"
                    /\ date[x].tm = strptime(input[x].s, Patterns[k]).tm
                    /\ Len(tried[x]) = k
                    /\ \A i \in 1..k : tried[x][i].ok = (i = k)

\* the asctime text was parsed, by the third pattern after two failures
C1_Witness ==
    \E x \in Slots :
        /\ input[x].kind = "str" /\ input[x].s = AsctimeText
        /\ date[x].kind = "ok" /\ Len(tried[x]) = 3
        /\ ~tried[x][1].ok /\ ~tried[x][2].ok /\ tried[x][3].ok

(***************************************************************************)
(* C2: the IMF-fixdate, RFC 850 and asctime texts of 7 Nov 1994 08:48:37   *)
(* parse to values that are equal to NOV_07 (year 94, month 10, day 7,     *)
(* 08:48:37, nanoseconds 0, offset 0) and to each other.                   *)
(***************************************************************************)
C2_ExamplesEqual ==
    /\ \A x \in Slots :
          (input[x].kind = "str" /\ input[x].s \in ExampleTexts) =>
              /\ date[x].kind = "ok"
              /\ HttpDate_eq(date[x].tm, NOV_07)
    /\ (/\ cmp.done
        /\ \A x \in Slots : input[x].kind = "str" /\ input[x].s \in ExampleTexts)
          => cmp.eq

\* the IMF-fixdate text and the asctime text were parsed and compared equal
C2_Witness ==
    /\ input["a"].kind = "str" /\ input["a"].s = ImfText
    /\ input["b"].kind = "str" /\ input["b"].s = AsctimeText
    /\ cmp.done /\ cmp.eq

(***************************************************************************)
(* C3: for a SystemTime t of whole seconds, at, after or before the epoch, *)
(* SystemTime::from(HttpDate::from(t)) is t.                               *)
(***************************************************************************)
C3_RoundTrip ==
    \A x \in Slots :
        (input[x].kind = "sys" /\ input[x].t.nsec = 0 /\ systime[x].kind # "none") =>
            systime[x] = [kind |-> "ok", sec |-> input[x].t.sec, nsec |-> 0]

(***************************************************************************)
(* C4: both conversions are total: HttpDate::from returns a value for      *)
(* every SystemTime and SystemTime::from for every HttpDate, without a     *)
(* panic, a failed assertion or an overflow.                               *)
(***************************************************************************)
C4_Total ==
    \A x \in Slots : date[x].kind # "panic" /\ systime[x].kind # "panic"

(***************************************************************************)
(* C5: two HttpDate values are equal if and only if they denote the same   *)
(* second, however each was made and whatever derived fields they carry.   *)
(***************************************************************************)
C5_EqualIffSameSecond ==
    cmp.done => (cmp.eq <=> timegm(date["a"].tm) = timegm(date["b"].tm))

C8_AbsoluteDuration ==
    \A x \in Slots :
        systime[x].kind # "none" =>
            systime[x] =
                IF timegm(date[x].tm) >= 0
                THEN [kind |-> "ok", sec |-> timegm(date[x].tm),
                      nsec |-> date[x].tm.tm_nsec]
                ELSE EpochSubSecs(-timegm(date[x].tm), date[x].tm.tm_nsec)

(***************************************************************************)
(* C9: HttpDate::from(t) is the UTC calendar instant of the pair (whole    *)
(* seconds, nanoseconds) of the time since the epoch for t at or after     *)
(* it, and for t before it of the pair (-whole seconds, -nanoseconds) of   *)
(* the distance to the epoch, brought back to nanoseconds in [0, 1e9)      *)
(* when the nanoseconds are not 0.                                         *)
(***************************************************************************)
C9_PairNormalized ==
    \A x \in Slots :
        input[x].kind = "sys" =>
            \E d \in {duration_since_epoch(input[x].t)} :
                date[x] =
                    [kind |-> "ok",
                     tm |-> IF d.ok THEN gmtime(d.secs, d.nanos)
                            ELSE IF d.nanos = 0 THEN gmtime(-d.secs, 0)
                            ELSE gmtime(-d.secs - 1, NSEC_PER_SEC - d.nanos)]

(***************************************************************************)
(* C10, as stated: when a pattern fails because a field it read is out of  *)
(* range, the later patterns are not tried and the parse fails with the    *)
(* malformed-header error.                                                 *)
(***************************************************************************)
C10_NoRetryOnSemantic ==
    \A x \in Slots :
        input[x].kind = "str" =>
            \A i \in 1..Len(tried[x]) :
                tried[x][i].range => (Len(tried[x]) = i /\ date[x].kind = "err")

(***************************************************************************)
(* C10, amended: the next pattern is tried after every failure of a        *)
(* pattern, a field out of range as well as a mismatch; a parse in which   *)
(* a pattern read a field out of range fails with the malformed-header     *)
(* error, after all three patterns have been tried and have failed.        *)
(***************************************************************************)
C10_RetryOnAnyFailure ==
    \A x \in Slots :
        input[x].kind = "str" =>
            /\ \A i \in 1..Len(tried[x]) :
                  (~tried[x][i].ok /\ i < 3) => Len(tried[x]) > i
            /\ \A i \in 1..Len(tried[x]) :
                  tried[x][i].range =>
                      /\ date[x].kind = "err"
                      /\ Len(tried[x]) = 3
                      /\ \A j \in 1..3 : ~tried[x][j].ok

\* the text with day 32 made the first pattern fail on the range of the
\* day; the other two patterns were tried, and the parse failed
C10_Witness ==
    \E x \in Slots :
        /\ input[x].kind = "str" /\ input[x].s = DayRangeText
        /\ Len(tried[x]) = 3 /\ tried[x][1].range
        /\ date[x].kind = "err"

TypeOK ==
    /\ \A x \in Slots : input[x].kind \in {"none", "str", "sys"}
    /\ \A x \in Slots : date[x].kind \in {"none", "ok", "err", "panic"}
====
